---- MODULE Spec2Model ----
(***************************************************************************)
(* Time-dependent FCI propagation (ruojings_td_fci.py) and its caller      *)
(* (siam_current.py).                                                      *)
(*                                                                         *)
(* Numbers.  The program computes in IEEE doubles.  Here every real number *)
(* is a fixed-point integer: the real x is stored as round(x * SCALE).     *)
(* Products are rescaled and rounded to nearest (ties away from zero), so  *)
(* every arithmetic step rounds, as it does in the program, only coarser.  *)
(* Orbital coefficient matrices hold exact integers (signed permutation    *)
(* matrices are the orthogonal matrices with integer entries).  Times are  *)
(* integer numbers of ticks, TimeDen ticks per unit of time.               *)
(*                                                                         *)
(* Many-body engine.  pyscf.fci.direct_uhf is modelled in the sector of    *)
(* one alpha electron and no beta electron (the ASU convention of          *)
(* TimeProp, nelec = (n, 0), with n = 1): the FCI vector has one           *)
(* coefficient per orbital, the Hamiltonian acts as the alpha one-body     *)
(* matrix, and all two-body density matrices vanish.                       *)
(***************************************************************************)
EXTENDS Integers, Sequences, FiniteSets, TLC

(* ------------------------------ bounds --------------------------------- *)
\* number of orbitals of the kernel runs
Norb == 6
\* fixed-point resolution: 1.0 is stored as SCALE
SCALE == 1000
\* ticks per unit of time
TimeDen == 4
\* largest final time, in ticks
MaxTf == 2
\* largest time step, in ticks
MaxDt == 2
\* number of orbitals of the tensor-level specifications
SmallNorb == 2

(* --------------------------- python values ----------------------------- *)
None == "None"

Idx(n) == 0 .. (n - 1)

(* -------------------------- fixed-point reals -------------------------- *)
\* a / b rounded to nearest, ties away from zero (b > 0)
RDiv(a, b) ==
    IF a >= 0 THEN (2 * a + b) \div (2 * b)
              ELSE -((2 * (-a) + b) \div (2 * b))

\* product of two fixed-point reals
FMul(a, b) == RDiv(a * b, SCALE)

\* int(): truncation toward zero of the rational a / b (b > 0)
Trunc(a, b) == IF a >= 0 THEN a \div b ELSE -((-a) \div b)

\* math.floor of the rational a / b (b > 0)
Floor(a, b) == a \div b

RECURSIVE SqrtSearch(_, _, _)
SqrtSearch(x, lo, hi) ==
    IF lo >= hi THEN lo
    ELSE LET mid == (lo + hi + 1) \div 2
         IN IF mid * mid <= x THEN SqrtSearch(x, mid, hi)
                              ELSE SqrtSearch(x, lo, mid - 1)

\* square root of a non-negative integer, rounded down
ISqrt(x) == SqrtSearch(x, 0, 46340)

RECURSIVE SumOver(_, _)
\* sum of f[x] over the finite set S (S a subset of DOMAIN f)
SumOver(f, S) ==
    IF S = {} THEN 0
    ELSE LET x == CHOOSE y \in S : TRUE
         IN f[x] + SumOver(f, S \ {x})

(* ------------------------------ complex -------------------------------- *)
Cx(re, im) == [re |-> re, im |-> im]
CZero == Cx(0, 0)
CAdd(a, b) == Cx(a.re + b.re, a.im + b.im)
CSub(a, b) == Cx(a.re - b.re, a.im - b.im)
CMul(a, b) == Cx(FMul(a.re, b.re) - FMul(a.im, b.im),
                 FMul(a.re, b.im) + FMul(a.im, b.re))
\* 0.25 * z
CQuarter(a) == Cx(RDiv(a.re, 4), RDiv(a.im, 4))

RECURSIVE SumIdx(_, _)
\* f[0] + ... + f[n-1]
SumIdx(f, n) == IF n = 0 THEN 0 ELSE f[n - 1] + SumIdx(f, n - 1)

RECURSIVE CSumOver(_, _)
CSumOver(f, S) ==
    IF S = {} THEN CZero
    ELSE LET x == CHOOSE y \in S : TRUE
         IN CAdd(f[x], CSumOver(f, S \ {x}))

RECURSIVE CSumIdx(_, _)
\* f[0] + ... + f[n-1] for complex f
CSumIdx(f, n) == IF n = 0 THEN CZero ELSE CAdd(f[n - 1], CSumIdx(f, n - 1))

(* ------------------------------ vectors -------------------------------- *)
VLen(v) == Cardinality(DOMAIN v)
VZero(n) == [p \in Idx(n) |-> 0]
VAdd(u, v) == [p \in DOMAIN u |-> u[p] + v[p]]
VNeg(u) == [p \in DOMAIN u |-> -u[p]]
\* u * (num / den) for an exact rational factor
VScale(u, num, den) == [p \in DOMAIN u |-> RDiv(u[p] * num, den)]
\* sum of squares of the components of r + 1j*i (in units of SCALE^2)
NormSq(r, i) == SumIdx([p \in DOMAIN r |-> r[p] * r[p] + i[p] * i[p]], VLen(r))
\* np.linalg.norm(r + 1j*i)
Norm(r, i) == ISqrt(NormSq(r, i))
\* v / norm
VDivNorm(v, norm) == [p \in DOMAIN v |-> RDiv(v[p] * SCALE, norm)]

(* ------------------------------ matrices ------------------------------- *)
MZero(n) == [p \in Idx(n) |-> [q \in Idx(n) |-> 0]]
MIdent(n) == [p \in Idx(n) |-> [q \in Idx(n) |-> IF p = q THEN 1 ELSE 0]]
MDim(M) == Cardinality(DOMAIN M)
\* M with M[p][q] := x
MSet(M, p, q, x) == [M EXCEPT ![p][q] = x]
MT(M) == [p \in DOMAIN M |-> [q \in DOMAIN M |-> M[q][p]]]
MAdd(A, B) == [p \in DOMAIN A |-> [q \in DOMAIN A |-> A[p][q] + B[p][q]]]
MSub(A, B) == [p \in DOMAIN A |-> [q \in DOMAIN A |-> A[p][q] - B[p][q]]]
\* np.array(M, dtype=complex)
MComplex(M) == [p \in DOMAIN M |-> [q \in DOMAIN M |-> Cx(M[p][q], 0)]]

(* -------------------------- rank-4 tensors ----------------------------- *)
\* A rank-4 tensor of shape (n,n,n,n) is stored by its entries that are not
\* zero: e maps index tuples <<p,q,r,s>> to values, every other entry is 0.
Idx4(n) == Idx(n) \X Idx(n) \X Idx(n) \X Idx(n)
TZero(n) == [n |-> n, e |-> <<>>]
TGet(G, t) == IF t \in DOMAIN G.e THEN G.e[t] ELSE 0
\* the tensor of shape n whose entry at t is f[t], zero entries dropped
TMake(n, f) == [n |-> n, e |-> [t \in {u \in DOMAIN f : f[u] # 0} |-> f[t]]]
\* numpy transpose(a0,a1,a2,a3): out[i0,i1,i2,i3] = G[j] with j[a_k + 1] = i_k
TTranspose(G, a0, a1, a2, a3) ==
    LET src(t) == [k \in 1..4 |->
                     IF a0 + 1 = k THEN t[1]
                     ELSE IF a1 + 1 = k THEN t[2]
                     ELSE IF a2 + 1 = k THEN t[3]
                     ELSE t[4]]
        dst(u) == <<u[a0 + 1], u[a1 + 1], u[a2 + 1], u[a3 + 1]>>
        dom == {dst(u) : u \in DOMAIN G.e}
    IN [n |-> G.n,
        e |-> [t \in dom |-> G.e[<<src(t)[1], src(t)[2], src(t)[3], src(t)[4]>>]]]
\* A - B, entry by entry, out of place
TSub(A, B) ==
    LET dom == {t \in (DOMAIN A.e) \cup (DOMAIN B.e) : TGet(A, t) # TGet(B, t)}
    IN [n |-> A.n, e |-> [t \in dom |-> TGet(A, t) - TGet(B, t)]]
TAdd(A, B) ==
    LET dom == {t \in (DOMAIN A.e) \cup (DOMAIN B.e) : TGet(A, t) + TGet(B, t) # 0}
    IN [n |-> A.n, e |-> [t \in dom |-> TGet(A, t) + TGet(B, t)]]
\* complex tensors: entries are complex records, absent entries are 0
CTGet(G, t) == IF t \in DOMAIN G.e THEN G.e[t] ELSE CZero
\* np.array(G, dtype=complex)
TComplex(G) == [n |-> G.n, e |-> [t \in DOMAIN G.e |-> Cx(G.e[t], 0)]]
CTSub(A, B) ==
    LET dom == {t \in (DOMAIN A.e) \cup (DOMAIN B.e) : CTGet(A, t) # CTGet(B, t)}
    IN [n |-> A.n, e |-> [t \in dom |-> CSub(CTGet(A, t), CTGet(B, t))]]

\* re + 1j*im for two real tensors of the same shape
CTFrom(Re, Im) ==
    LET dom == (DOMAIN Re.e) \cup (DOMAIN Im.e)
    IN [n |-> Re.n, e |-> [t \in dom |-> Cx(TGet(Re, t), TGet(Im, t))]]
\* re + 1j*im for two real matrices
CMFrom(Re, Im) == [p \in DOMAIN Re |-> [q \in DOMAIN Re |-> Cx(Re[p][q], Im[p][q])]]

(* ------------------------------ einsum --------------------------------- *)
\* einsum('uv,up,vq->pq', h, A, B)
EinsumOneBody(h, A, B) ==
    LET n == MDim(h)
        \* hB[u][q] = sum over v of h[u][v] * B[v][q]
        hB == [u \in Idx(n) |-> [q \in Idx(n) |->
                 SumIdx([v \in Idx(n) |-> h[u][v] * B[v][q]], n)]]
    IN [p \in Idx(n) |-> [q \in Idx(n) |->
          SumIdx([u \in Idx(n) |-> A[u][p] * hB[u][q]], n)]]

\* einsum('uvxy,up,vr->prxy', g, A, B): the first index pair is transformed
EinsumFirstPair(g, A, B) ==
    LET n == g.n
        dom == UNION {{<<p, r, s[3], s[4]>> : p \in Idx(n), r \in Idx(n)} : s \in DOMAIN g.e}
        term(t) == [s \in DOMAIN g.e |->
                      IF s[3] = t[3] /\ s[4] = t[4]
                      THEN g.e[s] * A[s[1]][t[1]] * B[s[2]][t[2]] ELSE 0]
    IN TMake(n, [t \in dom |-> SumOver(term(t), DOMAIN g.e)])

\* einsum('prxy,xq,ys->prsq', g, A, B): the output indices q and s exchanged
EinsumSecondPairSwapped(g, A, B) ==
    LET n == g.n
        dom == UNION {{<<s[1], s[2], q, z>> : q \in Idx(n), z \in Idx(n)} : s \in DOMAIN g.e}
        term(t) == [s \in DOMAIN g.e |->
                      IF s[1] = t[1] /\ s[2] = t[2]
                      THEN g.e[s] * A[s[3]][t[4]] * B[s[4]][t[3]] ELSE 0]
    IN TMake(n, [t \in dom |-> SumOver(term(t), DOMAIN g.e)])

\* einsum('prxy,xq,ys->prqs', g, A, B): the second index pair is transformed
EinsumSecondPair(g, A, B) ==
    LET n == g.n
        dom == UNION {{<<s[1], s[2], q, z>> : q \in Idx(n), z \in Idx(n)} : s \in DOMAIN g.e}
        term(t) == [s \in DOMAIN g.e |->
                      IF s[1] = t[1] /\ s[2] = t[2]
                      THEN g.e[s] * A[s[3]][t[3]] * B[s[4]][t[4]] ELSE 0]
    IN TMake(n, [t \in dom |-> SumOver(term(t), DOMAIN g.e)])

(* ------------------------- class ERIs ---------------------------------- *)
\* python tuples are 0-based, TLA+ tuples 1-based: h1e[0] is h1e[1] here
ERIs(h1e, g2e, mo_coeff) ==
    LET moa == mo_coeff[1]
        mob == mo_coeff[2]
        h1e_a == EinsumOneBody(h1e, moa, moa)
        h1e_b == EinsumOneBody(h1e, mob, mob)
        g2e_aa == EinsumSecondPair(EinsumFirstPair(g2e, moa, moa), moa, moa)
        g2e_ab == EinsumSecondPair(EinsumFirstPair(g2e, moa, moa), mob, mob)
        g2e_bb == EinsumSecondPair(EinsumFirstPair(g2e, mob, mob), mob, mob)
    IN [mo_coeff |-> mo_coeff,
        h1e |-> <<h1e_a, h1e_b>>,
        g2e |-> <<g2e_aa, g2e_ab, g2e_bb>>]

(* -------------------- many-body engine (direct_uhf) -------------------- *)
RECURSIVE num_strings(_, _)
\* cistring.num_strings(n, m): the binomial coefficient n over m
num_strings(n, m) ==
    IF m = 0 THEN 1
    ELSE IF n = 0 THEN 0
    ELSE num_strings(n - 1, m - 1) + num_strings(n - 1, m)

\* the length of an FCI vector of norb orbitals and nelec = (nea, neb)
HilbertDim(norb, nelec) == num_strings(norb, nelec[1]) * num_strings(norb, nelec[2])

\* the engine's own check of its vector argument (assert cibra.size == na*nb)
EngineAccepts(c, norb, nelec) == VLen(c) = HilbertDim(norb, nelec)

\* direct_uhf.contract_2e(absorb_h1e(...), c, norb, nelec), one alpha electron
Contract2e(eris, c) ==
    LET h == eris.h1e[1]
    IN [p \in DOMAIN c |-> RDiv(SumIdx([q \in DOMAIN c |-> h[p][q] * c[q]], VLen(c)), SCALE)]

\* direct_uhf.make_rdm12s(c, norb, nelec): ((d1a, d1b), (d2aa, d2ab, d2bb))
MakeRdm12s(c, norb, nelec) ==
    <<  <<[p \in Idx(norb) |-> [q \in Idx(norb) |-> FMul(c[p], c[q])]], MZero(norb)>>,
        <<TZero(norb), TZero(norb), TZero(norb)>>  >>

\* direct_uhf.trans_rdm12s(bra, ket, norb, nelec): 1pdm[p,q] = <bra| q^+ p |ket>,
\* ((d1a, d1b), (d2aa, d2ab, d2ba, d2bb))
TransRdm12s(bra, ket, norb, nelec) ==
    <<  <<[p \in Idx(norb) |-> [q \in Idx(norb) |-> FMul(bra[q], ket[p])]], MZero(norb)>>,
        <<TZero(norb), TZero(norb), TZero(norb), TZero(norb)>>  >>

(* ------------------------- class CIObject ------------------------------ *)
CIObject(fcivec, norb, nelec) ==
    [r |-> fcivec, i |-> [p \in DOMAIN fcivec |-> 0], norb |-> norb, nelec |-> nelec]

\* direct_uhf.make_rdm1s(c, norb, nelec): (d1a, d1b), the one-body matrices
\* make_rdm12s returns
MakeRdm1s(c, norb, nelec) == MakeRdm12s(c, norb, nelec)[1]

\* direct_uhf.trans_rdm1s(bra, ket, norb, nelec): (d1a, d1b), the one-body
\* matrices trans_rdm12s returns
TransRdm1s(bra, ket, norb, nelec) == TransRdm12s(bra, ket, norb, nelec)[1]

\* the closed-form combination of compute_rdm1, given the engine's outputs
\* rr = make_rdm1s(r), ii = make_rdm1s(i), ri = trans_rdm1s(r, i)
CombineRdm1(rr, ii, ri) ==
    <<CMFrom(MAdd(rr[1], ii[1]), MSub(ri[1], MT(ri[1]))),
      CMFrom(MAdd(rr[2], ii[2]), MSub(ri[2], MT(ri[2])))>>

\* CIObject.compute_rdm1
compute_rdm1(ci) ==
    CombineRdm1(MakeRdm1s(ci.r, ci.norb, ci.nelec),
                MakeRdm1s(ci.i, ci.norb, ci.nelec),
                TransRdm1s(ci.r, ci.i, ci.norb, ci.nelec))

\* the combination with the mixed-spin anti-term taken from the ab block
\* permuted by (1,0,3,2) instead of the ba block permuted by (3,2,1,0)
CombineRdm12SameSpinRule(rr, ii, ri) ==
    LET rr1 == rr[1]  rr2 == rr[2]
        ii1 == ii[1]  ii2 == ii[2]
        ri1 == ri[1]  ri2 == ri[2]
        d1a == CMFrom(MAdd(rr1[1], ii1[1]), MSub(ri1[1], MT(ri1[1])))
        d1b == CMFrom(MAdd(rr1[2], ii1[2]), MSub(ri1[2], MT(ri1[2])))
        d2aa == CTFrom(TAdd(rr2[1], ii2[1]), TSub(ri2[1], TTranspose(ri2[1], 1, 0, 3, 2)))
        d2ab == CTFrom(TAdd(rr2[2], ii2[2]), TSub(ri2[2], TTranspose(ri2[2], 1, 0, 3, 2)))
        d2bb == CTFrom(TAdd(rr2[3], ii2[3]), TSub(ri2[4], TTranspose(ri2[4], 1, 0, 3, 2)))
    IN << <<d1a, d1b>>,
          <<TTranspose(d2aa, 1, 0, 3, 2), TTranspose(d2ab, 1, 0, 3, 2),
            TTranspose(d2bb, 1, 0, 3, 2)>> >>

\* the closed-form combination of compute_rdm12, given the engine's outputs
\* rr = make_rdm12s(r), ii = make_rdm12s(i), ri = trans_rdm12s(r, i)
CombineRdm12(rr, ii, ri) ==
    LET rr1 == rr[1]  rr2 == rr[2]
        ii1 == ii[1]  ii2 == ii[2]
        ri1 == ri[1]  ri2 == ri[2]
        d1a == CMFrom(MAdd(rr1[1], ii1[1]), MSub(ri1[1], MT(ri1[1])))
        d1b == CMFrom(MAdd(rr1[2], ii1[2]), MSub(ri1[2], MT(ri1[2])))
        d2aa == CTFrom(TAdd(rr2[1], ii2[1]), TSub(ri2[1], TTranspose(ri2[1], 1, 0, 3, 2)))
        d2ab == CTFrom(TAdd(rr2[2], ii2[2]), TSub(ri2[2], TTranspose(ri2[3], 3, 2, 1, 0)))
        d2bb == CTFrom(TAdd(rr2[3], ii2[3]), TSub(ri2[4], TTranspose(ri2[4], 1, 0, 3, 2)))
    IN << <<d1a, d1b>>,
          <<TTranspose(d2aa, 1, 0, 3, 2), TTranspose(d2ab, 1, 0, 3, 2),
            TTranspose(d2bb, 1, 0, 3, 2)>> >>

\* CIObject.compute_rdm12
compute_rdm12(ci) ==
    CombineRdm12(MakeRdm12s(ci.r, ci.norb, ci.nelec),
                 MakeRdm12s(ci.i, ci.norb, ci.nelec),
                 TransRdm12s(ci.r, ci.i, ci.norb, ci.nelec))

\* G -= G.transpose(0,1,3,2): the exchange applied to the wrong index pair
AntisymWrongAxes(G) == CTSub(G, TTranspose(G, 0, 1, 3, 2))

\* G -= G.transpose(1,0,2,3) on a complex tensor.  numpy (1.13 and later)
\* detects that the operand overlaps the output and evaluates the right-hand
\* side out of place, so every entry is computed from the old values.
AntisymInPlace(G) == CTSub(G, TTranspose(G, 1, 0, 2, 3))

(* ---------------------------- propagator ------------------------------- *)
\* make_hop(eris, norb, nelec): the closure _hop
hop(eris, c) == Contract2e(eris, c)

\* the pair (r, i) left as it is, the normalisation forgotten
NoRenormalize(r, i) == [r |-> r, i |-> i]

\* the pair (r, i) after  norm = np.linalg.norm(r + 1j*i); r /= norm; i /= norm
Renormalize(r, i) ==
    LET norm == Norm(r, i)
    IN [r |-> VDivNorm(r, norm), i |-> VDivNorm(i, norm)]

\* the displacement accumulated into the array of the state itself
\* (r = ci.r; r += d*h): the result shares the buffer of ci
displaced_in_place(v, d, num, den) ==
    [val |-> VAdd(v, VScale(d, num, den)), owner |-> "ci"]

\* v + d*h with h = num/den (lines 29-30, 37-38, 45-46): the sum is a new
\* array with a buffer of its own (owner says whose buffer the in-place
\* division by the norm reaches)
displaced(v, d, num, den) ==
    [val |-> VAdd(v, VScale(d, num, den)), owner |-> "local"]

\* the vector v of ci after  a /= norm  stored x into the array a
DividedThrough(v, a, x) == IF a.owner = "local" THEN v ELSE x

\* a stage of textbook Runge-Kutta: the displaced state is not normalised
rk_stage_plain(ci, eris, dr, di, num, den) ==
    LET s == [r |-> VAdd(ci.r, VScale(dr, num, den)),
              i |-> VAdd(ci.i, VScale(di, num, den))]
    IN [dr |-> hop(eris, s.i), di |-> VNeg(hop(eris, s.r)), hops |-> 2, ci |-> ci]

\* the first stage with a single call of hop, on a complex vector
first_stage_one_call(ci, eris) ==
    [dr |-> hop(eris, ci.i), di |-> VNeg(hop(eris, ci.r)), hops |-> 1]

\* the first stage (lines 24-25): dr1 = hop(ci.i), di1 = -hop(ci.r); hops
\* counts the calls of hop
first_stage(ci, eris) ==
    [dr |-> hop(eris, ci.i), di |-> VNeg(hop(eris, ci.r)), hops |-> 1 + 1]

\* one later stage of the order-4 branch (lines 29-35, 37-43 and 45-51):
\* the state of ci displaced by (dr, di) * num/den, normalised, then the
\* Hamiltonian action on it; ci is the CIObject as the stage leaves it
rk_stage(ci, eris, dr, di, num, den) ==
    LET r == displaced(ci.r, dr, num, den)
        i_ == displaced(ci.i, di, num, den)
        s == Renormalize(r.val, i_.val)
    IN [dr |-> hop(eris, s.i), di |-> VNeg(hop(eris, s.r)), hops |-> 1 + 1,
        ci |-> [ci EXCEPT !.r = DividedThrough(ci.r, r, s.r),
                          !.i = DividedThrough(ci.i, i_, s.i)]]

\* compute_update(ci, eris, h, RK).  h is in ticks.  The result records what
\* the call returns (kind "pair": the tuple (dr, di); kind "none": the
\* function body ends without a return statement, so the call returns None),
\* the number of calls of hop it made, and the CIObject as the call leaves it.
compute_update(ci, eris, h, RK) ==
    LET k1 == first_stage(ci, eris)
        dr1 == k1.dr
        di1 == k1.di
    IN IF RK = 1 THEN
           [kind |-> "pair", dr |-> dr1, di |-> di1, hops |-> k1.hops, ci |-> ci]
       ELSE IF RK = 4 THEN
           LET k2 == rk_stage(ci, eris, dr1, di1, h, 2 * TimeDen)
               k3 == rk_stage(k2.ci, eris, k2.dr, k2.di, h, 2 * TimeDen)
               k4 == rk_stage(k3.ci, eris, k3.dr, k3.di, h, TimeDen)
               dr == [p \in DOMAIN dr1 |->
                        RDiv(dr1[p] + 2 * k2.dr[p] + 2 * k3.dr[p] + k4.dr[p], 6)]
               di == [p \in DOMAIN di1 |->
                        RDiv(di1[p] + 2 * k2.di[p] + 2 * k3.di[p] + k4.di[p], 6)]
           IN [kind |-> "pair", dr |-> dr, di |-> di,
               hops |-> k1.hops + k2.hops + k3.hops + k4.hops, ci |-> k4.ci]
       ELSE
           [kind |-> "none", dr |-> None, di |-> None, hops |-> k1.hops, ci |-> ci]

\* the time step of kernel_std (305-309), given the pair compute_update
\* returned
ApplyUpdate(ci, u, dt) ==
    LET s == Renormalize(VAdd(ci.r, VScale(u.dr, dt, TimeDen)),
                         VAdd(ci.i, VScale(u.di, dt, TimeDen)))
    IN [ci EXCEPT !.r = s.r, !.i = s.i]

\* the time step without the division by the norm
ApplyUpdatePlotUnnormalised(ci, u, dt) ==
    LET r == VAdd(ci.r, VScale(u.dr, dt, TimeDen))
        r_imag == VAdd(ci.i, VScale(u.di, dt, TimeDen))
    IN [ci EXCEPT !.r = r, !.i = r_imag]

\* the time step of kernel_plot (257-261), given the pair compute_update
\* returned
ApplyUpdatePlot(ci, u, dt) ==
    LET r == VAdd(ci.r, VScale(u.dr, dt, TimeDen))
        r_imag == VAdd(ci.i, VScale(u.di, dt, TimeDen))
        norm == Norm(r, r_imag)
    IN [ci EXCEPT !.r = VDivNorm(r, norm), !.i = VDivNorm(r_imag, norm)]

(* ---------------------------- observables ------------------------------ *)
\* einsum('pq,qp', h, d)
EinsumTrace(h, d) ==
    LET n == MDim(h)
    IN CSumIdx([p \in Idx(n) |-> CSumIdx([q \in Idx(n) |-> CMul(h[p][q], d[q][p])], n)], n)

\* einsum('pqrs,rspq', g, d)
EinsumTrace4(g, d) ==
    CSumOver([t \in DOMAIN g.e |-> CMul(g.e[t], CTGet(d, <<t[3], t[4], t[1], t[2]>>))],
             DOMAIN g.e)

\* the real parts of a complex tensor
TReal(G) ==
    [n |-> G.n, e |-> [t \in {u \in DOMAIN G.e : G.e[u].re # 0} |-> G.e[t].re]]

\* the array taken as it is, without a copy: the result shares the buffer of
\* the bundle's tensor
np_view(G) == [val |-> TComplex(G), owner |-> "bundle"]

\* np.array(G, dtype=complex): a new array with a buffer of its own (owner
\* says whose buffer the later views and in-place operations reach)
np_array(G) == [val |-> TComplex(G), owner |-> "local"]

\* the bundle's tensor G after  a -= a.transpose(1,0,2,3)  stored X through
\* the view a.transpose(0,2,1,3) of the array a
WrittenThrough(G, a, X) ==
    IF a.owner = "local" THEN G ELSE TReal(TTranspose(X, 0, 2, 1, 3))

\* the locals of compute_energy(d1, d2, eris) when it returns, and the bundle
\* eris as the call leaves it
compute_energy_locals(d1, d2, eris) ==
    LET h1e_a == MComplex(eris.h1e[1])
        h1e_b == MComplex(eris.h1e[2])
        c_aa == np_array(eris.g2e[1])
        c_ab == np_array(eris.g2e[2])
        c_bb == np_array(eris.g2e[3])
        d1a == d1[1]
        d1b == d1[2]
        \* to physicists notation
        g2e_aa0 == TTranspose(c_aa.val, 0, 2, 1, 3)
        g2e_ab == TTranspose(c_ab.val, 0, 2, 1, 3)
        g2e_bb0 == TTranspose(c_bb.val, 0, 2, 1, 3)
        d2aa == TTranspose(d2[1], 0, 2, 1, 3)
        d2ab == TTranspose(d2[2], 0, 2, 1, 3)
        d2bb == TTranspose(d2[3], 0, 2, 1, 3)
        \* antisymmetrize integral
        g2e_aa == AntisymInPlace(g2e_aa0)
        g2e_bb == AntisymInPlace(g2e_bb0)
        e == CAdd(CAdd(CAdd(CAdd(EinsumTrace(h1e_a, d1a),
                                 EinsumTrace(h1e_b, d1b)),
                            CQuarter(EinsumTrace4(g2e_aa, d2aa))),
                       CQuarter(EinsumTrace4(g2e_bb, d2bb))),
                  EinsumTrace4(g2e_ab, d2ab))
    IN [g2e_aa |-> g2e_aa, g2e_ab |-> g2e_ab, g2e_bb |-> g2e_bb, e |-> e,
        eris |-> [eris EXCEPT !.g2e = <<WrittenThrough(eris.g2e[1], c_aa, g2e_aa),
                                        eris.g2e[2],
                                        WrittenThrough(eris.g2e[3], c_bb, g2e_bb)>>]]

compute_energy(d1, d2, eris) == compute_energy_locals(d1, d2, eris).e

\* python item access on an axis of length n: -n..n-1 are valid, negative
\* indices count from the end
PyValid(k, n) == -n <= k /\ k < n
PyIdx(k, n) == IF k < 0 THEN k + n ELSE k
\* M[p,q] = x
PySet(M, p, q, x) == MSet(M, PyIdx(p, MDim(M)), PyIdx(q, MDim(M)), x)

\* np.zeros((norbs,)*4)
ZeroG2e(norbs) == TZero(norbs)

\* the operator matrix of compute_occ
occ_operator(site_i, norbs) ==
    PySet(PySet(MZero(norbs), site_i, site_i, SCALE), site_i + 1, site_i + 1, SCALE)

\* compute_occ(site_i, d1, d2, mocoeffs, norbs): ok is FALSE when an item
\* assignment raises IndexError
compute_occ(site_i, d1, d2, mocoeffs, norbs) ==
    IF ~(PyValid(site_i, norbs) /\ PyValid(site_i + 1, norbs))
    THEN [ok |-> FALSE, val |-> None]
    ELSE [ok |-> TRUE,
          val |-> compute_energy(d1, d2,
                     ERIs(occ_operator(site_i, norbs), ZeroG2e(norbs), mocoeffs)).re]

\* the operator matrix of compute_Sz
Sz_operator(site_i, norbs) ==
    PySet(PySet(MZero(norbs), site_i, site_i, RDiv(SCALE, 2)),
          site_i + 1, site_i + 1, -RDiv(SCALE, 2))

compute_Sz(site_i, d1, d2, mocoeffs, norbs) ==
    IF ~(PyValid(site_i, norbs) /\ PyValid(site_i + 1, norbs))
    THEN [ok |-> FALSE, val |-> None]
    ELSE [ok |-> TRUE,
          val |-> compute_energy(d1, d2,
                     ERIs(Sz_operator(site_i, norbs), ZeroG2e(norbs), mocoeffs)).re]

\* the bond matrix with the same sign on both sides of the left bond
current_operator_same_sign(dot_i, t, norbs) ==
    LET J0 == MZero(norbs)
        J1 == PySet(J0, dot_i - 1, dot_i, -RDiv(t, 2))
        J2 == PySet(J1, dot_i, dot_i - 1, -RDiv(t, 2))
        J3 == PySet(J2, dot_i + 1, dot_i, RDiv(t, 2))
        J4 == PySet(J3, dot_i, dot_i + 1, -RDiv(t, 2))
    IN J4

\* the operator matrix J of compute_current
current_operator(dot_i, t, norbs) ==
    LET J0 == MZero(norbs)
        J1 == PySet(J0, dot_i - 1, dot_i, -RDiv(t, 2))
        J2 == PySet(J1, dot_i, dot_i - 1, RDiv(t, 2))
        J3 == PySet(J2, dot_i + 1, dot_i, RDiv(t, 2))
        J4 == PySet(J3, dot_i, dot_i + 1, -RDiv(t, 2))
    IN J4

compute_current(dot_i, t, d1, d2, mocoeffs, norbs) ==
    IF ~(PyValid(dot_i - 1, norbs) /\ PyValid(dot_i, norbs) /\ PyValid(dot_i + 1, norbs))
    THEN [ok |-> FALSE, val |-> None]
    ELSE [ok |-> TRUE,
          val |-> compute_energy(d1, d2,
                     ERIs(current_operator(dot_i, t, norbs), ZeroG2e(norbs), mocoeffs)).im]

RECURSIVE spinblind_fill(_, _, _, _)
\* the loop  for doti in range(doti, last+1, 2)  of compute_current_spinblind
spinblind_fill(J, doti, last, t) ==
    IF doti > last THEN J
    ELSE LET J1 == PySet(J, doti - 2, doti, -RDiv(t, 2))
             J2 == PySet(J1, doti + 1 - 2, doti + 1, -RDiv(t, 2))
             J3 == PySet(J2, doti, doti - 2, RDiv(t, 2))
             J4 == PySet(J3, doti + 1, doti + 1 - 2, RDiv(t, 2))
             J5 == PySet(J4, doti + 2, doti, RDiv(t, 2))
             J6 == PySet(J5, doti + 1 + 2, doti + 1, RDiv(t, 2))
             J7 == PySet(J6, doti, doti + 2, -RDiv(t, 2))
             J8 == PySet(J7, doti + 1, doti + 1 + 2, -RDiv(t, 2))
         IN spinblind_fill(J8, doti + 2, last, t)

\* every index the loop of compute_current_spinblind touches is valid
spinblind_valid(dot_i, norbs) ==
    \A doti \in {d \in dot_i[1] .. dot_i[Len(dot_i)] : (d - dot_i[1]) % 2 = 0} :
        /\ PyValid(doti - 2, norbs)
        /\ PyValid(doti + 1 + 2, norbs)
        /\ PyValid(doti, norbs)
        /\ PyValid(doti + 1, norbs)
        /\ PyValid(doti - 1, norbs)
        /\ PyValid(doti + 2, norbs)

spinblind_operator(dot_i, t, norbs) ==
    spinblind_fill(MZero(norbs), dot_i[1], dot_i[Len(dot_i)], t)

compute_current_spinblind(dot_i, t, d1, d2, mocoeffs, norbs) ==
    IF ~spinblind_valid(dot_i, norbs)
    THEN [ok |-> FALSE, val |-> None]
    ELSE [ok |-> TRUE,
          val |-> compute_energy(d1, d2,
                     ERIs(spinblind_operator(dot_i, t, norbs), ZeroG2e(norbs), mocoeffs)).im]

(* ------------------------------ inputs --------------------------------- *)
\* 1e-6 = 1 / EpsDen, the guard of int(tf/dt+1e-6)
EpsDen == 1000000
\* Test(): ll, the number of left lead sites, is also idot, the dot index
ll == 3

\* Test(): the one-body Hamiltonian of the time propagation, a chain of norb
\* sites with lead hopping t = 1.0, dot-lead hopping td = 0.4, gate voltage
\* Vg = -0.5 on the dot and bias V = -0.005 across the leads
TestH1e(norb) ==
    LET idot == ll
        t == SCALE
        td == RDiv(2 * SCALE, 5)
        Vg == -RDiv(SCALE, 2)
        halfV == -RDiv(SCALE, 400)
    IN [p \in Idx(norb) |-> [q \in Idx(norb) |->
          IF q = p + 1 \/ q = p - 1
          THEN (IF p = idot \/ q = idot THEN -td ELSE -t)
          ELSE IF p # q THEN 0
          ELSE IF p = idot THEN Vg
          ELSE IF p < idot THEN halfV
          ELSE -halfV]]

\* Test(): g2e[idot,idot,idot,idot] = U with U = 1.0
TestG2e(norb) == TMake(norb, [t \in {<<ll, ll, ll, ll>>} |-> SCALE])

\* dot-lead hopping passed as t_dot (td in Test, V_imp_leads in DotCurrentData)
TDot == RDiv(2 * SCALE, 5)

\* DotCurrentData with n_leads = (1,1): imp_i, the first and last spin orbital
\* of the impurity
ImpI == <<2, 3>>

\* orbital coefficient pairs (moa, mob) of the runs
MoCoeffs(norb) ==
    LET id == MIdent(norb)
        rev == [p \in Idx(norb) |-> [q \in Idx(norb) |-> IF p + q = norb - 1 THEN 1 ELSE 0]]
    IN {<<id, id>>, <<rev, id>>}

\* the unit vector along site k, scaled by a
SiteVec(norb, k, a) == [p \in Idx(norb) |-> IF p = k THEN a ELSE 0]

\* ground-state vectors handed to CIObject: one of norm 1, one of norm 2 and
\* one that is a component short of the dimension norb and nelec imply
FciVecs(norb) ==
    { [p \in Idx(norb) |-> IF p = 2 THEN RDiv(3 * SCALE, 5)
                           ELSE IF p = 3 THEN RDiv(4 * SCALE, 5) ELSE 0],
      SiteVec(norb, 2, 2 * SCALE),
      SiteVec(norb - 1, 2, SCALE) }

modes == <<"std", "plot">>
\* the assertion on mode dropped
AnyMode(mode) == TRUE
\* mode in modes
InModes(mode) == \E k \in 1..Len(modes) : modes[k] = mode

\* final times (ticks): below zero, zero and up to MaxTf
TfValues == {-4, -1} \cup (0 .. MaxTf)

\* an optional argument: <<>> when it is None, <<x>> when it is x
Absent == <<>>
Given(x) == <<x>>
IsNone(a) == Len(a) = 0
ValueOf(a) == a[1]

\* the (spinblind, i_dot) pairs of the runs: i_dot is a site index for
\* compute_current and a [first, last] list for compute_current_spinblind
DotChoice(k) ==
    IF k = 1 THEN [spinblind |-> FALSE, i_dot |-> Absent]
    ELSE IF k = 2 THEN [spinblind |-> FALSE, i_dot |-> Given(ll)]
    ELSE IF k = 3 THEN [spinblind |-> TRUE, i_dot |-> Absent]
    ELSE [spinblind |-> TRUE, i_dot |-> Given(ImpI)]

\* a call of kernel made directly
DirectArgs(m, tf, dt, rk, hasT, k) ==
    [caller |-> "direct", mode |-> m, tf |-> tf, dt |-> dt, RK |-> rk,
     i_dot |-> DotChoice(k).i_dot,
     t_dot |-> IF hasT THEN Given(TDot) ELSE Absent,
     spinblind |-> DotChoice(k).spinblind]

\* Test(): kernel("plot", eris, ci, tf, dt, i_dot = idot, t_dot = td)
TestArgs(tf, dt) ==
    [caller |-> "Test", mode |-> "plot", tf |-> tf, dt |-> dt, RK |-> 4,
     i_dot |-> Given(ll), t_dot |-> Given(TDot), spinblind |-> FALSE]

\* DotCurrentData -> TimeProp: kernel("plot", ..., i_dot = imp_i,
\* t_dot = V_imp_leads, spinblind = True)
DotCurrentDataArgs(tf, dt) ==
    [caller |-> "DotCurrentData", mode |-> "plot", tf |-> tf, dt |-> dt, RK |-> 4,
     i_dot |-> Given(ImpI), t_dot |-> Given(TDot), spinblind |-> TRUE]

(* --------------------------- kernel: state ----------------------------- *)
VARIABLES
    args,          \* the arguments of kernel (mode, tf, dt, RK, i_dot, t_dot, spinblind)
    fcivec,        \* the ground-state vector CIObject was constructed from
    eris,          \* the ERIs instance
    ci,            \* the CIObject instance
    pc,            \* position of the run
    N,             \* the local N
    it,            \* the next value of the iterator range(N+1)
    i,             \* the local i
    dm,            \* the locals (d1a, d1b), (d2aa, d2ab, d2bb)
    d1as, d1bs, d2aas, d2abs, d2bbs,
    t_vals, energy_vals, occ_vals, current_vals,
    out,           \* the times printed by kernel_std
    upd,           \* what the last call of compute_update left
    ret,           \* the value kernel returned
    err,           \* the exception that ended the run
    hop_calls,     \* calls of the engine's Hamiltonian action so far
    rdm_calls,     \* calls of ci.compute_rdm12 so far
    nadv,          \* assignments of a new state to ci.r, ci.i so far
    src,           \* nadv at each call of ci.compute_rdm12
    tpc,           \* position of the operator-level run (ERIs, then compute_energy)
    th1e,          \* its site-basis one-body matrix
    tg2e,          \* its site-basis two-body tensor
    tmo,           \* its orbital coefficients (moa, mob)
    tlocals,       \* the locals of compute_energy when it returned
    opc,           \* position of a single call of a function (observables, densities)
    oin,           \* its arguments
    oout           \* its locals when it returned

vars == <<args, fcivec, eris, ci, pc, N, it, i, dm, d1as, d1bs, d2aas, d2abs, d2bbs,
          t_vals, energy_vals, occ_vals, current_vals, out, upd, ret, err,
          hop_calls, rdm_calls, nadv, src, tpc, th1e, tg2e, tmo, tlocals,
          opc, oin, oout>>

tvars == <<tpc, th1e, tg2e, tmo, tlocals>>

ovars == <<opc, oin, oout>>

\* the variables of a kernel run
kvars == <<args, fcivec, eris, ci, pc, N, it, i, dm, d1as, d1bs, d2aas, d2abs, d2bbs,
           t_vals, energy_vals, occ_vals, current_vals, out, upd, ret, err,
           hop_calls, rdm_calls, nadv, src>>

\* ret before kernel has returned anything
NoReturn == <<>>

lists == <<d1as, d1bs, d2aas, d2abs, d2bbs>>
arrays == <<t_vals, energy_vals, occ_vals, current_vals>>

\* nelec of the runs: one alpha electron (TimeProp: nelecs = (mol.nelectron, 0))
Nelec == <<1, 0>>

Init ==
    /\ eris \in {ERIs(TestH1e(Norb), TestG2e(Norb), mo) : mo \in MoCoeffs(Norb)}
    /\ fcivec \in FciVecs(Norb)
    /\ \E tf \in TfValues, dt \in 1..MaxDt :
          \/ \E m \in {"std", "plot", "dmrg"}, rk \in {1, 2, 4}, hasT \in BOOLEAN, k \in 1..4 :
                args = DirectArgs(m, tf, dt, rk, hasT, k)
          \/ args = TestArgs(tf, dt)
          \/ args = DotCurrentDataArgs(tf, dt)
    /\ ci = CIObject(fcivec, Norb, Nelec)
    /\ pc = "start"
    /\ N = None /\ it = 0 /\ i = None /\ dm = <<>>
    /\ d1as = <<>> /\ d1bs = <<>> /\ d2aas = <<>> /\ d2abs = <<>> /\ d2bbs = <<>>
    /\ t_vals = <<>> /\ energy_vals = <<>> /\ occ_vals = <<>> /\ current_vals = <<>>
    /\ out = <<>> /\ upd = [kind |-> "uncalled"] /\ ret = NoReturn /\ err = None
    /\ hop_calls = 0 /\ rdm_calls = 0 /\ nadv = 0 /\ src = <<>>
    /\ tpc = "off" /\ th1e = MZero(SmallNorb) /\ tg2e = TZero(SmallNorb)
    /\ tmo = <<MIdent(SmallNorb), MIdent(SmallNorb)>> /\ tlocals = <<>>
    /\ opc = "off" /\ oin = <<>> /\ oout = <<>>

(* --------------------------- kernel: steps ----------------------------- *)
\* round(tf/dt+1e-6) in place of int(tf/dt+1e-6)
StepCountRounded(tf, dt) == RDiv(tf * EpsDen + dt, dt * EpsDen)

\* int(tf/dt+1e-6), tf and dt in ticks
StepCount(tf, dt) == Trunc(tf * EpsDen + dt, dt * EpsDen)

\* np.zeros(n)
Zeros(n) == [k \in 1..n |-> 0]

\* the run ends with exception e; nothing else changes
Raise(e) ==
    /\ pc' = "failed"
    /\ err' = e
    /\ UNCHANGED <<args, fcivec, eris, ci, N, it, i, dm, lists, arrays, out, upd, ret,
                   hop_calls, rdm_calls, nadv, src>>

\* only the first of the two assertions
OnlyDotGiven(a) == ~IsNone(a.i_dot)

\* assert(i_dot != None); assert(t_dot != None)
PlotInputsGiven(a) == ~IsNone(a.i_dot) /\ ~IsNone(a.t_dot)

\* kernel up to the first iteration of the time-step loop: the checks of
\* kernel and the prologue of kernel_std or kernel_plot.  A mode that passes
\* the assertion and is neither "std" nor "plot" reaches the end of kernel,
\* which returns None.
kernel ==
    /\ pc = "start"
    /\ UNCHANGED <<tvars, ovars>>
    /\ IF ~InModes(args.mode) THEN Raise("AssertionError")
       ELSE IF args.mode = "std" THEN
           /\ N' = StepCount(args.tf, args.dt)
           /\ pc' = "for"
           /\ UNCHANGED <<args, fcivec, eris, ci, it, i, dm, lists, arrays, out, upd,
                          ret, err, hop_calls, rdm_calls, nadv, src>>
       ELSE IF args.mode = "plot" THEN
           IF ~PlotInputsGiven(args) THEN Raise("AssertionError")
           ELSE IF StepCount(args.tf, args.dt) + 1 < 0 THEN Raise("ValueError")
           ELSE
               /\ N' = StepCount(args.tf, args.dt)
               /\ t_vals' = Zeros(N' + 1)
               /\ energy_vals' = Zeros(N' + 1)
               /\ occ_vals' = Zeros(N' + 1)
               /\ current_vals' = Zeros(N' + 1)
               /\ pc' = "for"
               /\ UNCHANGED <<args, fcivec, eris, ci, it, i, dm, lists, out, upd,
                              ret, err, hop_calls, rdm_calls, nadv, src>>
       ELSE
           /\ pc' = "done"
           /\ UNCHANGED <<args, fcivec, eris, ci, N, it, i, dm, lists, arrays, out, upd,
                          ret, err, hop_calls, rdm_calls, nadv, src>>

\* the head of  for i in range(N+1)  and the first half of the body: the
\* density matrices are retrieved and appended (kernel_std also prints the time)
\* The engine rejects a vector whose length does not fit norb and nelec; that
\* is the first check a vector of the wrong length meets.
retrieve ==
    /\ pc = "for"
    /\ UNCHANGED <<tvars, ovars>>
    /\ it < N + 1
    /\ IF ~EngineAccepts(ci.r, ci.norb, ci.nelec)
       THEN /\ pc' = "failed"
            /\ err' = "EngineError"
            /\ i' = it
            /\ it' = it + 1
            /\ UNCHANGED <<args, fcivec, eris, ci, N, dm, lists, arrays, out, upd, ret,
                           hop_calls, rdm_calls, nadv, src>>
       ELSE
            /\ i' = it
            /\ it' = it + 1
            /\ dm' = compute_rdm12(ci)
            /\ rdm_calls' = rdm_calls + 1
            /\ src' = Append(src, nadv)
            /\ d1as' = Append(d1as, dm'[1][1])
            /\ d1bs' = Append(d1bs, dm'[1][2])
            /\ d2aas' = Append(d2aas, dm'[2][1])
            /\ d2abs' = Append(d2abs, dm'[2][2])
            /\ d2bbs' = Append(d2bbs, dm'[2][3])
            /\ out' = IF args.mode = "std" THEN Append(out, i' * args.dt) ELSE out
            /\ pc' = "step"
            /\ UNCHANGED <<args, fcivec, eris, ci, N, arrays, upd, ret, err, hop_calls, nadv>>

\* the time step: compute_update, then the new state is normalised and
\* assigned to ci.r, ci.i.  Unpacking None (dr, di = None) raises TypeError.
\* kernel_std names the imaginary part i, which rebinds the loop variable.
time_step ==
    /\ pc = "step"
    /\ UNCHANGED <<tvars, ovars>>
    /\ \E u \in {compute_update(ci, eris, args.dt, args.RK)} :
          /\ upd' = u
          /\ hop_calls' = hop_calls + u.hops
          /\ IF u.kind = "none"
             THEN /\ pc' = "failed"
                  /\ err' = "TypeError"
                  /\ ci' = u.ci
                  /\ UNCHANGED <<i, nadv>>
             ELSE /\ ci' = IF args.mode = "std" THEN ApplyUpdate(u.ci, u, args.dt)
                                                ELSE ApplyUpdatePlot(u.ci, u, args.dt)
                  /\ nadv' = nadv + 1
                  /\ i' = IF args.mode = "std"
                          THEN VAdd(u.ci.i, VScale(u.di, args.dt, TimeDen))
                          ELSE i
                  /\ pc' = IF args.mode = "std" THEN "for" ELSE "observe"
                  /\ err' = err
    /\ UNCHANGED <<args, fcivec, eris, N, it, dm, lists, arrays, out, ret, rdm_calls, src>>

\* kernel_plot, second half of the body: the observables are computed from
\* the density matrices d and the arrays are filled
observe_with(d) ==
    /\ pc = "observe"
    /\ UNCHANGED <<tvars, ovars>>
    /\ \E E \in {compute_energy_locals(d[1], d[2], eris)},
          Occupancy \in {compute_occ(2, d[1], d[2], eris.mo_coeff, ci.norb)},
          Sz \in {compute_Sz(2, d[1], d[2], eris.mo_coeff, ci.norb)},
          Current \in {IF args.spinblind
                       THEN compute_current_spinblind(ValueOf(args.i_dot), ValueOf(args.t_dot),
                                                      d[1], d[2], eris.mo_coeff, ci.norb)
                       ELSE compute_current(ValueOf(args.i_dot), ValueOf(args.t_dot),
                                            d[1], d[2], eris.mo_coeff, ci.norb)} :
          /\ eris' = E.eris
          /\ IF ~(Occupancy.ok /\ Sz.ok /\ Current.ok)
             THEN /\ pc' = "failed"
                  /\ err' = "IndexError"
                  /\ UNCHANGED arrays
             ELSE /\ t_vals' = [t_vals EXCEPT ![i + 1] = i * args.dt]
                  /\ energy_vals' = [energy_vals EXCEPT ![i + 1] = E.e.re]
                  /\ current_vals' = [current_vals EXCEPT ![i + 1] = Current.val]
                  /\ pc' = "for"
                  /\ UNCHANGED <<occ_vals, err>>
          /\ UNCHANGED <<args, fcivec, ci, N, it, i, dm, lists, out,
                         upd, ret, hop_calls, rdm_calls, nadv, src>>

\* the observables are computed from the density matrices of a state that
\* has already been stepped
observe_fresh == observe_with(compute_rdm12(ci))

\* the density matrices passed on are the locals retrieved at the top of the
\* iteration
observe == observe_with(dm)

\* the function returns after the last retrieval, without the last time step
return_before_last_step ==
    /\ pc = "step"
    /\ UNCHANGED <<tvars, ovars>>
    /\ it = N + 1
    /\ ret' = IF args.mode = "std"
              THEN << <<d1as, d1bs>>, <<d2aas, d2abs, d2bbs>> >>
              ELSE <<t_vals, energy_vals, current_vals>>
    /\ pc' = "done"
    /\ UNCHANGED <<args, fcivec, eris, ci, N, it, i, dm, lists, arrays, out, upd, err,
                   hop_calls, rdm_calls, nadv, src>>

\* the loop is exhausted: kernel_std returns the stacked density matrices,
\* kernel_plot returns t_vals, energy_vals, current_vals
return ==
    /\ pc = "for"
    /\ UNCHANGED <<tvars, ovars>>
    /\ ~(it < N + 1)
    /\ ret' = IF args.mode = "std"
              THEN << <<d1as, d1bs>>, <<d2aas, d2abs, d2bbs>> >>
              ELSE <<t_vals, energy_vals, current_vals>>
    /\ pc' = "done"
    /\ UNCHANGED <<args, fcivec, eris, ci, N, it, i, dm, lists, arrays, out, upd, err,
                   hop_calls, rdm_calls, nadv, src>>

\* DotCurrentData 121-122:  timevals, observables = td.TimeProp(...);
\* energyvals, currentvals, occvals, Szvals = observables
DotCurrentData_unpack ==
    /\ pc = "done"
    /\ UNCHANGED <<tvars, ovars>>
    /\ args.caller = "DotCurrentData"
    /\ IF Len(ret) = 2 /\ Len(ret[2]) = 4
       THEN /\ pc' = "unpacked"
            /\ UNCHANGED <<args, fcivec, eris, ci, N, it, i, dm, lists, arrays, out, upd,
                           ret, err, hop_calls, rdm_calls, nadv, src>>
       ELSE Raise("ValueError")

\* Test 524:  t, E, J = kernel(...)
Test_unpack ==
    /\ pc = "done"
    /\ UNCHANGED <<tvars, ovars>>
    /\ args.caller = "Test"
    /\ IF Len(ret) = 3
       THEN /\ pc' = "unpacked"
            /\ UNCHANGED <<args, fcivec, eris, ci, N, it, i, dm, lists, arrays, out, upd,
                           ret, err, hop_calls, rdm_calls, nadv, src>>
       ELSE Raise("ValueError")

Next ==
    \/ kernel
    \/ retrieve
    \/ time_step
    \/ observe
    \/ return
    \/ DotCurrentData_unpack
    \/ Test_unpack

Spec == Init /\ [][Next]_vars

(* ------------------ operator level: ERIs, compute_energy --------------- *)
\* one-body matrices of the operator-level runs: zero, every matrix with a
\* single entry 1.0, and one with all entries different
MatrixInputs(n) ==
    {MZero(n)}
    \cup {[p \in Idx(n) |-> [q \in Idx(n) |-> IF <<p, q>> = u THEN SCALE ELSE 0]] :
            u \in Idx(n) \X Idx(n)}
    \cup {[p \in Idx(n) |-> [q \in Idx(n) |-> 1 + p + n * q]]}

\* two-body tensors of the operator-level runs: zero, every tensor with a
\* single entry 1.0, and one with all entries different
TensorInputs(n) ==
    {TZero(n)}
    \cup {TMake(n, [t \in {u} |-> SCALE]) : u \in Idx4(n)}
    \cup {TMake(n, [t \in Idx4(n) |-> 1 + t[1] + n * t[2] + n * n * t[3] + n * n * n * t[4]])}

\* orbital coefficient matrices of the operator-level runs
MoInputs(n) ==
    {MIdent(n), [p \in Idx(n) |-> [q \in Idx(n) |-> IF p + q = n - 1 THEN 1 ELSE 0]]}

\* the vector (0.6, 0.8, 0, ...) of the operator-level runs
SmallVec(n) == [p \in Idx(n) |-> IF p = 0 THEN RDiv(3 * SCALE, 5)
                                 ELSE IF p = 1 THEN RDiv(4 * SCALE, 5) ELSE 0]

\* eris before ERIs has been constructed
NoBundle == [mo_coeff |-> <<>>, h1e |-> <<>>, g2e |-> <<>>]

TInit ==
    /\ th1e \in MatrixInputs(SmallNorb)
    /\ tg2e \in TensorInputs(SmallNorb)
    /\ \E a \in MoInputs(SmallNorb), b \in MoInputs(SmallNorb) : tmo = <<a, b>>
    /\ tpc = "new" /\ tlocals = <<>>
    /\ eris = NoBundle
    /\ fcivec = SmallVec(SmallNorb)
    /\ ci = CIObject(fcivec, SmallNorb, Nelec)
    /\ args = TestArgs(0, 1)
    /\ pc = "off"
    /\ N = None /\ it = 0 /\ i = None /\ dm = <<>>
    /\ d1as = <<>> /\ d1bs = <<>> /\ d2aas = <<>> /\ d2abs = <<>> /\ d2bbs = <<>>
    /\ t_vals = <<>> /\ energy_vals = <<>> /\ occ_vals = <<>> /\ current_vals = <<>>
    /\ out = <<>> /\ upd = [kind |-> "uncalled"] /\ ret = NoReturn /\ err = None
    /\ hop_calls = 0 /\ rdm_calls = 0 /\ nadv = 0 /\ src = <<>>
    /\ opc = "off" /\ oin = <<>> /\ oout = <<>>

\* eris = ERIs(h1e, g2e, mo_coeff)
ERIs_init ==
    /\ tpc = "new"
    /\ UNCHANGED ovars
    /\ eris' = ERIs(th1e, tg2e, tmo)
    /\ tpc' = "built"
    /\ UNCHANGED <<args, fcivec, ci, pc, N, it, i, dm, lists, arrays, out, upd, ret, err,
                   hop_calls, rdm_calls, nadv, src, th1e, tg2e, tmo, tlocals>>

\* compute_energy(d1, d2, eris) on the density matrices of ci
measure ==
    /\ tpc = "built"
    /\ UNCHANGED ovars
    /\ dm' = compute_rdm12(ci)
    /\ rdm_calls' = rdm_calls + 1
    /\ tlocals' = compute_energy_locals(dm'[1], dm'[2], eris)
    /\ eris' = tlocals'.eris
    /\ tpc' = "measured"
    /\ UNCHANGED <<args, fcivec, ci, pc, N, it, i, lists, arrays, out, upd, ret, err,
                   hop_calls, nadv, src, th1e, tg2e, tmo>>

TNext ==
    \/ ERIs_init
    \/ measure

TSpec == TInit /\ [][TNext]_vars

(* ------------- single calls: current operators, densities ------------- *)
\* a matrix and a tensor with all entries different, numbered from k
DistinctM(n, k) == [p \in Idx(n) |-> [q \in Idx(n) |-> k + 1 + p + n * q]]
DistinctT(n, k) ==
    TMake(n, [t \in Idx4(n) |-> k + 1 + t[1] + n * t[2] + n * n * t[3] + n * n * n * t[4]])

\* what the engine returns to compute_rdm12: make_rdm12s(r) and make_rdm12s(i)
\* as ((d1a, d1b), (d2aa, d2ab, d2bb)), trans_rdm12s(r, i) as
\* ((d1a, d1b), (d2aa, d2ab, d2ba, d2bb)).  The engine is opaque: its results
\* are inputs here, with every entry of every block different.
EngineReturns(n, k) ==
    [rr |-> << <<DistinctM(n, k), DistinctM(n, k + 20)>>,
               <<DistinctT(n, k + 100), DistinctT(n, k + 200), DistinctT(n, k + 300)>> >>,
     ii |-> << <<DistinctM(n, k + 40), DistinctM(n, k + 60)>>,
               <<DistinctT(n, k + 400), DistinctT(n, k + 500), DistinctT(n, k + 600)>> >>,
     ri |-> << <<MT(DistinctM(n, k + 80)), DistinctM(n, 3 * k)>>,
               <<DistinctT(n, 2 * k + 700), DistinctT(n, 3 * k + 800),
                 DistinctT(n, 5 * k + 900), DistinctT(n, 7 * k)>> >>]

\* the state whose density matrices the current is measured on: one electron
\* spread over the first three orbitals, with an imaginary part
OState(norbs) ==
    [r |-> [p \in Idx(norbs) |-> IF p = 0 THEN RDiv(3 * SCALE, 5) ELSE 0],
     i |-> [p \in Idx(norbs) |-> IF p = 1 THEN RDiv(12 * SCALE, 25)
                                 ELSE IF p = 2 THEN RDiv(16 * SCALE, 25) ELSE 0],
     norb |-> norbs, nelec |-> Nelec]

\* hopping amplitudes of the single calls
TValues == {TDot, -SCALE}

\* the arguments of the single calls: a site index for compute_current, a
\* [first, last] list for compute_current_spinblind, the engine's results for
\* compute_rdm12
OInputs(a) ==
    \/ \E d \in -1 .. Norb, t \in TValues, n \in 3 .. Norb :
          a = [op |-> "current", dot_i |-> d, t |-> t, norbs |-> n]
    \/ \E f \in 0 .. Norb, w \in 0 .. 3, t \in TValues, n \in 4 .. (Norb + 2) :
          a = [op |-> "spinblind", dot_i |-> <<f, f + w>>, t |-> t, norbs |-> n]
    \/ \E k \in 0 .. 3 :
          a = [op |-> "rdm12", engine |-> EngineReturns(SmallNorb, k)]

OInit ==
    /\ OInputs(oin)
    /\ opc = "new" /\ oout = <<>>
    /\ eris = NoBundle
    /\ fcivec = SmallVec(SmallNorb)
    /\ ci = CIObject(fcivec, SmallNorb, Nelec)
    /\ args = TestArgs(0, 1)
    /\ pc = "off"
    /\ N = None /\ it = 0 /\ i = None /\ dm = <<>>
    /\ d1as = <<>> /\ d1bs = <<>> /\ d2aas = <<>> /\ d2abs = <<>> /\ d2bbs = <<>>
    /\ t_vals = <<>> /\ energy_vals = <<>> /\ occ_vals = <<>> /\ current_vals = <<>>
    /\ out = <<>> /\ upd = [kind |-> "uncalled"] /\ ret = NoReturn /\ err = None
    /\ hop_calls = 0 /\ rdm_calls = 0 /\ nadv = 0 /\ src = <<>>
    /\ tpc = "off" /\ th1e = MZero(SmallNorb) /\ tg2e = TZero(SmallNorb)
    /\ tmo = <<MIdent(SmallNorb), MIdent(SmallNorb)>> /\ tlocals = <<>>

\* compute_current(dot_i, t, d1, d2, mocoeffs, norbs) on the density matrices
\* of OState(norbs), with identity coefficients
call_compute_current ==
    /\ opc = "new" /\ oin.op = "current"
    /\ \E d \in {compute_rdm12(OState(oin.norbs))} :
       \E c \in {compute_current(oin.dot_i, oin.t, d[1], d[2],
                                 <<MIdent(oin.norbs), MIdent(oin.norbs)>>, oin.norbs)} :
          oout' = IF c.ok
                  THEN [ok |-> TRUE, J |-> current_operator(oin.dot_i, oin.t, oin.norbs),
                        val |-> c.val]
                  ELSE [ok |-> FALSE, err |-> "IndexError"]
    /\ opc' = "returned"
    /\ UNCHANGED <<oin, kvars, tvars>>

\* compute_current_spinblind(dot_i, t, d1, d2, mocoeffs, norbs), likewise
call_compute_current_spinblind ==
    /\ opc = "new" /\ oin.op = "spinblind"
    /\ \E d \in {compute_rdm12(OState(oin.norbs))} :
       \E c \in {compute_current_spinblind(oin.dot_i, oin.t, d[1], d[2],
                                 <<MIdent(oin.norbs), MIdent(oin.norbs)>>, oin.norbs)} :
          oout' = IF c.ok
                  THEN [ok |-> TRUE, J |-> spinblind_operator(oin.dot_i, oin.t, oin.norbs),
                        val |-> c.val]
                  ELSE [ok |-> FALSE, err |-> "IndexError"]
    /\ opc' = "returned"
    /\ UNCHANGED <<oin, kvars, tvars>>

\* ci.compute_rdm12() and ci.compute_rdm1() of a state for which the engine
\* returns oin.engine, and the same two calls on the one-electron state
\* OState(SmallNorb + 1)
call_compute_rdm12 ==
    /\ opc = "new" /\ oin.op = "rdm12"
    /\ oout' = [rdm12 |-> CombineRdm12(oin.engine.rr, oin.engine.ii, oin.engine.ri),
                rdm1 |-> CombineRdm1(oin.engine.rr[1], oin.engine.ii[1], oin.engine.ri[1]),
                state_rdm12 |-> compute_rdm12(OState(SmallNorb + 1)),
                state_rdm1 |-> compute_rdm1(OState(SmallNorb + 1))]
    /\ opc' = "returned"
    /\ UNCHANGED <<oin, kvars, tvars>>

ONext ==
    \/ call_compute_current
    \/ call_compute_current_spinblind
    \/ call_compute_rdm12

OSpec == OInit /\ [][ONext]_vars

(* ------------------------------- claims -------------------------------- *)
\* the densities of record j (1-based) as kernel appended them
RecordDm(j) == << <<d1as[j], d1bs[j]>>, <<d2aas[j], d2abs[j], d2bbs[j]>> >>

\* the current kernel_plot stores for densities d
CurrentOf(d) ==
    IF args.spinblind
    THEN compute_current_spinblind(ValueOf(args.i_dot), ValueOf(args.t_dot),
                                   d[1], d[2], eris.mo_coeff, ci.norb).val
    ELSE compute_current(ValueOf(args.i_dot), ValueOf(args.t_dot),
                         d[1], d[2], eris.mo_coeff, ci.norb).val

\* C1: in both modes the record of index i comes from the density matrices of
\* the state that has been advanced exactly i times: the j-th retrieval
\* (index j-1) happens after exactly j-1 state assignments, what is retrieved
\* are the density matrices of the state ci holds at that moment, they are
\* what is appended, and in plot mode the scalars stored at index j-1 are
\* those of record j-1's density matrices.
C1_RecordFromStateAdvancedI ==
    /\ Len(src) = Len(d1as)
    /\ \A j \in 1..Len(src) : src[j] = j - 1
    /\ pc = "step" =>
          /\ nadv = i
          /\ dm = compute_rdm12(ci)
          /\ RecordDm(Len(d1as)) = dm
    /\ (args.mode = "plot" /\ pc \in {"for", "done", "unpacked"}) =>
          \A j \in 1..Len(d1as) :
              /\ energy_vals[j] = compute_energy(RecordDm(j)[1], RecordDm(j)[2], eris).re
              /\ current_vals[j] = CurrentOf(RecordDm(j))

\* C1 witness: a finished plot run with two records from different states
C1_Witness ==
    /\ pc = "done" /\ args.mode = "plot"
    /\ Len(d1as) >= 2 /\ d1as[1] # d1as[2]
    /\ current_vals[1] # current_vals[2]

\* floor(tf/dt + 1e-6)
FloorCount(tf, dt) == Floor(tf * EpsDen + dt, dt * EpsDen)

\* a finished run made n+1 iterations and emitted n+1 records at times k*dt
Emitted(n) ==
    /\ rdm_calls = n + 1
    /\ Len(d1as) = n + 1
    /\ args.mode = "std" => out = [k \in 1..(n + 1) |-> (k - 1) * args.dt]
    /\ args.mode = "plot" => t_vals = [k \in 1..(n + 1) |-> (k - 1) * args.dt]

\* C2 as stated: for every t_final and every dt > 0 a finished run made
\* exactly N+1 iterations and emitted N+1 records at times i*dt, with
\* N = floor(t_final/dt + 1e-6).
C2_Original == pc = "done" => Emitted(FloorCount(args.tf, args.dt))

\* C2 amended: the same for every t_final >= 0 (int() truncates toward zero,
\* which is floor only for arguments that are not negative).
C2_StepCount ==
    (pc = "done" /\ args.tf >= 0) => Emitted(FloorCount(args.tf, args.dt))

\* C2 witness: a finished std run of several iterations, whose loop variable
\* was rebound to a vector in every iteration
C2_Witness ==
    /\ pc = "done" /\ args.mode = "std" /\ args.tf >= 0
    /\ Len(out) >= 2 /\ nadv >= 2

\* tolerance on the squared norm (in units of SCALE^2): one percent
NormTol == (SCALE * SCALE) \div 100

\* the sum of squares of r and i is 1 within the tolerance
UnitNorm(vr, vi) ==
    LET d == NormSq(vr, vi) - SCALE * SCALE
    IN -NormTol <= d /\ d <= NormTol

\* C3 as stated: the state has unit norm at the start and at the end of every
\* completed time step, the start of step 0 included, for every ground-state
\* vector the constructor accepts.
C3_Original == pc # "off" => UnitNorm(ci.r, ci.i)

\* C3 amended: the state has unit norm at the end of every completed time
\* step; before the first step it is the supplied vector with zero imaginary
\* part, of whatever norm that vector has.
C3_UnitNormAfterStep ==
    /\ nadv >= 1 => UnitNorm(ci.r, ci.i)
    /\ nadv = 0 => (ci.r = fcivec /\ ci.i = [p \in DOMAIN fcivec |-> 0])

\* C3 witness: a step completed on a run whose supplied vector has norm 2
C3_Witness ==
    /\ nadv >= 1 /\ pc = "for"
    /\ ~UnitNorm(fcivec, [p \in DOMAIN fcivec |-> 0])

\* C4 as stated: compute_update called with an order other than 1 or 4 raises
\* an unsupported-order error and never returns normally.
C4_UnsupportedOrderRaises ==
    (upd.kind # "uncalled" /\ args.RK \notin {1, 4}) => upd.kind = "raise"

\* C5: kernel called with a mode that is neither "std" nor "plot" fails at
\* once: no density matrix retrieved, no Hamiltonian action, state unchanged,
\* nothing returned.
C5_InvalidModeFailsFast ==
    (pc \notin {"start", "off"} /\ args.mode \notin {"std", "plot"}) =>
        /\ pc = "failed" /\ err = "AssertionError"
        /\ rdm_calls = 0 /\ hop_calls = 0
        /\ ci = CIObject(fcivec, Norb, Nelec)
        /\ ret = NoReturn /\ Len(d1as) = 0 /\ Len(t_vals) = 0

\* C5 witness: the failed call with mode "dmrg"
C5_Witness == pc = "failed" /\ args.mode = "dmrg"

\* C6: plot mode with i_dot or t_dot missing fails before the loop starts
\* (state unchanged, nothing emitted); std mode with the same parameters
\* missing does not fail for that: it fails only for an unsupported order
\* or, inside the engine, for a vector of the wrong length.
C6_MissingPlotParameter ==
    /\ (pc \notin {"start", "off"} /\ args.mode = "plot"
            /\ (IsNone(args.i_dot) \/ IsNone(args.t_dot))) =>
          /\ pc = "failed" /\ err = "AssertionError"
          /\ rdm_calls = 0 /\ hop_calls = 0 /\ it = 0
          /\ ci = CIObject(fcivec, Norb, Nelec)
          /\ ret = NoReturn /\ Len(d1as) = 0 /\ Len(t_vals) = 0 /\ Len(out) = 0
    /\ (args.mode = "std" /\ (IsNone(args.i_dot) \/ IsNone(args.t_dot))) =>
          /\ err # "AssertionError"
          /\ pc = "failed" => (args.RK \notin {1, 4} \/ err = "EngineError")

\* C6 witness: the failed plot call that has the site but not the hopping
C6_Witness ==
    /\ pc = "failed" /\ args.mode = "plot"
    /\ ~IsNone(args.i_dot) /\ IsNone(args.t_dot)

\* C7 as stated: a completed plot run returns (times, (energy, current,
\* occupancy, Sz)), every series of length N+1 and filled with the measured
\* values.
C7_PlotReturnsFourSeries ==
    (pc = "done" /\ args.mode = "plot") =>
        /\ Len(ret) = 2
        /\ Len(ret[2]) = 4
        /\ \A k \in 1..4 : Len(ret[2][k]) = N + 1

\* the unit-norm pair of (r, i), as the claim words it
C8_Unit(vr, vi) ==
    [r |-> VDivNorm(vr, Norm(vr, vi)), i |-> VDivNorm(vi, Norm(vr, vi))]

\* k = (H*I, -H*R) at the state s
C8_K(e, s) == [r |-> hop(e, s.i), i |-> VNeg(hop(e, s.r))]

\* the original state c displaced by (num/den)*k and renormalised
C8_Displaced(c, k, num, den) ==
    C8_Unit(VAdd(c.r, VScale(k.r, num, den)), VAdd(c.i, VScale(k.i, num, den)))

\* what the claim says compute_update returns for order 1 and order 4
C8_Expected(c, e, h, RK) ==
    LET k1 == C8_K(e, c)
        k2 == C8_K(e, C8_Displaced(c, k1, h, 2 * TimeDen))
        k3 == C8_K(e, C8_Displaced(c, k2, h, 2 * TimeDen))
        k4 == C8_K(e, C8_Displaced(c, k3, h, TimeDen))
    IN IF RK = 1 THEN k1
       ELSE [r |-> [p \in DOMAIN c.r |->
                      RDiv(k1.r[p] + 2 * k2.r[p] + 2 * k3.r[p] + k4.r[p], 6)],
             i |-> [p \in DOMAIN c.i |->
                      RDiv(k1.i[p] + 2 * k2.i[p] + 2 * k3.i[p] + k4.i[p], 6)]]

\* C8: for order 4 compute_update returns (k1 + 2*k2 + 2*k3 + k4)/6 in both
\* parts, k2, k3, k4 taken at the original state displaced by (h/2)*k1,
\* (h/2)*k2, h*k3 and renormalised; for order 1 it returns k1.
C8_RungeKutta ==
    [][(pc = "step" /\ args.RK \in {1, 4}) =>
         \E x \in {C8_Expected(ci, eris, args.dt, args.RK)} :
            /\ upd'.kind = "pair"
            /\ upd'.dr = x.r
            /\ upd'.di = x.i]_vars

\* C8 witness: an order-4 update that differs from its first stage k1
C8_Witness ==
    /\ upd.kind = "pair" /\ args.RK = 4 /\ nadv = 1
    /\ upd.dr # hop(eris, [p \in DOMAIN fcivec |-> 0])
    /\ upd.di # VNeg(hop(eris, fcivec))

\* -z
CNeg(z) == Cx(-z.re, -z.im)

\* C9: when compute_energy returns, both same-spin tensors satisfy
\* G[p,q,r,s] = -G[q,p,r,s] for all indices, and the mixed-spin tensor is
\* the bundle's tensor with its two middle indices exchanged, nothing more.
C9_Antisymmetric ==
    tpc = "measured" =>
        \A t \in Idx4(SmallNorb) :
            LET x == <<t[2], t[1], t[3], t[4]>>
            IN /\ CTGet(tlocals.g2e_aa, t) = CNeg(CTGet(tlocals.g2e_aa, x))
               /\ CTGet(tlocals.g2e_bb, t) = CNeg(CTGet(tlocals.g2e_bb, x))
               /\ CTGet(tlocals.g2e_ab, t)
                     = Cx(TGet(eris.g2e[2], <<t[1], t[3], t[2], t[4]>>), 0)

\* C9 witness: a measurement whose same-spin tensor is not zero and whose
\* mixed-spin tensor is not antisymmetric
C9_Witness ==
    /\ tpc = "measured"
    /\ DOMAIN tlocals.g2e_aa.e # {}
    /\ \E t \in Idx4(SmallNorb) :
          CTGet(tlocals.g2e_ab, t) # CNeg(CTGet(tlocals.g2e_ab, <<t[2], t[1], t[3], t[4]>>))

\* C10: ERIs built with identity coefficients for both spins has
\* h1e_a = h1e_b = the input matrix and g2e_aa = g2e_ab = g2e_bb = the input
\* tensor.
C10_IdentityRoundTrip ==
    (tpc # "new" /\ tpc # "off"
         /\ tmo = <<MIdent(SmallNorb), MIdent(SmallNorb)>>) =>
        /\ eris.h1e = <<th1e, th1e>>
        /\ eris.g2e = <<tg2e, tg2e, tg2e>>

\* C10 witness: a bundle built with identity coefficients from a matrix and a
\* tensor that are not symmetric in their indices
C10_Witness ==
    /\ tpc = "built"
    /\ tmo = <<MIdent(SmallNorb), MIdent(SmallNorb)>>
    /\ th1e # MT(th1e)
    /\ \E t \in DOMAIN tg2e.e : TGet(tg2e, <<t[1], t[2], t[4], t[3]>>) # tg2e.e[t]

\* the complex scalar compute_energy returns for the one-body operator J
\* (zero two-body part) on the density matrices d, as compute_current calls it
MeasureOneBody(J, d) ==
    compute_energy(d[1], d[2], ERIs(J, ZeroG2e(MDim(J)), eris.mo_coeff))

\* the bond matrix made symmetric: every entry replaced by its magnitude
SymmetricBond(J) ==
    [p \in DOMAIN J |-> [q \in DOMAIN J |-> IF J[p][q] < 0 THEN -J[p][q] ELSE J[p][q]]]

\* the site indices for which compute_current builds its operator
CurrentSites(norbs) == {s \in Idx(norbs) : PyValid(s - 1, norbs) /\ PyValid(s + 1, norbs)}

\* C11 as stated: on the density matrices compute_rdm12 produced, the scalar
\* of the current operator has zero real part, and the scalar of the bond
\* matrix made symmetric is zero altogether.
C11_Original ==
    pc = "step" =>
        \A s \in CurrentSites(Norb) :
            LET J == current_operator(s, TDot, Norb)
            IN /\ MeasureOneBody(J, dm).re = 0
               /\ MeasureOneBody(SymmetricBond(J), dm) = CZero

\* C11 amended: the scalar of the current operator has zero real part, and
\* the scalar of the bond matrix made symmetric has zero imaginary part (the
\* current compute_current would return for it is zero); its real part is
\* the bond's hopping expectation value, which need not vanish.
C11_PurelyImaginary ==
    pc = "step" =>
        \A s \in CurrentSites(Norb) :
            LET J == current_operator(s, TDot, Norb)
            IN /\ MeasureOneBody(J, dm).re = 0
               /\ MeasureOneBody(SymmetricBond(J), dm).im = 0

\* C11 witness: density matrices of a stepped state (complex entries) on
\* which the current is not zero
C11_Witness ==
    /\ pc = "step" /\ nadv >= 1
    /\ \E p \in Idx(Norb), q \in Idx(Norb) : dm[1][1][p][q].im # 0
    /\ \E s \in CurrentSites(Norb) :
          MeasureOneBody(current_operator(s, TDot, Norb), dm).im # 0

\* C12 as stated: a CIObject whose vector does not have the length its norb
\* and electron counts imply is rejected when it is constructed, so kernel
\* never gets past its checks with such a state.
C12_MismatchRejectedAtConstruction ==
    pc \in {"for", "step", "observe", "done", "unpacked"} =>
        VLen(ci.r) = HilbertDim(ci.norb, ci.nelec)

\* the bundle kernel was called with
BundlePassed == ERIs(TestH1e(Norb), TestG2e(Norb), eris.mo_coeff)

\* C13: the measurements of an iteration (compute_energy on the run's own
\* bundle, compute_occ, compute_Sz and the current) leave ci.r and ci.i, the
\* density matrices they were given, the stored records and the bundle's
\* tensors as they were; so at every point of a run the bundle is the one
\* kernel was called with.
C13_MeasuringChangesNothing ==
    /\ [][pc = "observe" =>
            /\ eris' = eris
            /\ ci' = ci
            /\ dm' = dm
            /\ <<d1as, d1bs, d2aas, d2abs, d2bbs>>' = <<d1as, d1bs, d2aas, d2abs, d2bbs>>]_vars
    /\ [](pc # "off" => eris = BundlePassed)

\* C13 witness: a plot run that has measured on complex density matrices and
\* stepped again afterwards, on a bundle with a two-body term
C13_Witness ==
    /\ pc = "for" /\ args.mode = "plot" /\ nadv >= 2
    /\ energy_vals[2] # 0
    /\ DOMAIN eris.g2e[1].e # {}

\* C14 as stated: in plot mode the state is not advanced between the
\* retrieval of an iteration's density matrices and the storing of that
\* iteration's scalars: as long as the scalars of the iteration are not
\* stored, the state is the one the density matrices were retrieved from.
C14_MeasureThenAdvance ==
    (args.mode = "plot" /\ pc \in {"step", "observe"}) => nadv = src[Len(src)]

\* C15 as stated: one call of compute_update calls the Hamiltonian action
\* once per stage, once in total for order 1 and four times for order 4.
C15_Original ==
    upd.kind = "pair" => upd.hops = (IF args.RK = 1 THEN 1 ELSE 4)

\* C15 amended: one call of compute_update calls the Hamiltonian action twice
\* per stage (on the imaginary part and on the real part): twice in total
\* for order 1 and eight times for order 4; over a run the calls add up
\* accordingly.
C15_TwoCallsPerStage ==
    /\ upd.kind = "pair" => upd.hops = (IF args.RK = 1 THEN 2 ELSE 8)
    /\ (pc \in {"for", "observe", "done"} /\ args.RK \in {1, 4}) =>
          hop_calls = nadv * (IF args.RK = 1 THEN 2 ELSE 8)

\* C15 witness: an order-4 run that has made two calls of compute_update
C15_Witness == upd.kind = "pair" /\ args.RK = 4 /\ nadv = 2 /\ hop_calls = 16

\* the index pairs of the entries of J that are not zero
NonZero(J) == {u \in (DOMAIN J) \X (DOMAIN J) : J[u[1]][u[2]] # 0}

\* J[p,q] = -J[q,p] for all p, q
Antisymmetric(J) == \A p \in DOMAIN J, q \in DOMAIN J : J[p][q] = -J[q][p]

\* every entry of J that is not zero has the magnitude x
Magnitude(J, x) ==
    \A u \in NonZero(J) : J[u[1]][u[2]] = x \/ J[u[1]][u[2]] = -x

\* C16 as stated: for every dot_i in 0..norbs-1 for which compute_current
\* builds its operator, J is antisymmetric, has exactly four entries that are
\* not zero, of magnitude t/2, at (dot_i-1,dot_i), (dot_i,dot_i-1),
\* (dot_i+1,dot_i), (dot_i,dot_i+1), with dot_i-1 and dot_i+1 inside
\* 0..norbs-1.
C16_FourBondEntries ==
    (opc = "returned" /\ oin.op = "current" /\ oout.ok /\ oin.dot_i \in Idx(oin.norbs)) =>
        LET d == oin.dot_i
        IN /\ Antisymmetric(oout.J)
           /\ Magnitude(oout.J, RDiv(oin.t, 2))
           /\ d - 1 \in Idx(oin.norbs) /\ d + 1 \in Idx(oin.norbs)
           /\ NonZero(oout.J) = {<<d - 1, d>>, <<d, d - 1>>, <<d + 1, d>>, <<d, d + 1>>}
           /\ Cardinality(NonZero(oout.J)) = 4

\* C17 as stated: for every inclusive range [first, last] for which
\* compute_current_spinblind builds its operator, ranges over several sites
\* included, J is antisymmetric and its entries that are not zero have the
\* magnitude t/2 and connect only indices that differ by exactly 2.
C17_SpinblindBonds ==
    (opc = "returned" /\ oin.op = "spinblind" /\ oout.ok) =>
        /\ Antisymmetric(oout.J)
        /\ Magnitude(oout.J, RDiv(oin.t, 2))
        /\ \A u \in NonZero(oout.J) : u[1] - u[2] = 2 \/ u[2] - u[1] = 2

\* C18: the two-body blocks compute_rdm12 returns are, entry by entry,
\*   same spin:  d2[p,q,r,s] = X[q,p,s,r] with
\*       X = RR2 + II2 + i*(RI2 - RI2 permuted by (1,0,3,2)),
\*       that is X[a,b,c,d] = RR2[a,b,c,d] + II2[a,b,c,d]
\*                            + i*(RI2[a,b,c,d] - RI2[b,a,d,c]);
\*   mixed spin: d2[p,q,r,s] = X[q,p,s,r] with
\*       X[a,b,c,d] = RR2ab[a,b,c,d] + II2ab[a,b,c,d]
\*                    + i*(RI2ab[a,b,c,d] - RI2ba[d,c,b,a]);
\* and its one-body matrices are those of compute_rdm1,
\* d1 = RR + II + i*(RI - RI^T), for both spins.
C18_CombinationRules ==
    (opc = "returned" /\ oin.op = "rdm12") =>
        LET rr1 == oin.engine.rr[1]  rr2 == oin.engine.rr[2]
            ii1 == oin.engine.ii[1]  ii2 == oin.engine.ii[2]
            ri1 == oin.engine.ri[1]  ri2 == oin.engine.ri[2]
            d1 == oout.rdm12[1]
            d2 == oout.rdm12[2]
        IN /\ \A t \in Idx4(SmallNorb) :
                LET x == <<t[2], t[1], t[4], t[3]>>
                    y == <<t[3], t[4], t[1], t[2]>>
                IN /\ CTGet(d2[1], t) = Cx(TGet(rr2[1], x) + TGet(ii2[1], x),
                                           TGet(ri2[1], x) - TGet(ri2[1], t))
                   /\ CTGet(d2[2], t) = Cx(TGet(rr2[2], x) + TGet(ii2[2], x),
                                           TGet(ri2[2], x) - TGet(ri2[3], y))
                   /\ CTGet(d2[3], t) = Cx(TGet(rr2[3], x) + TGet(ii2[3], x),
                                           TGet(ri2[4], x) - TGet(ri2[4], t))
           /\ d1 = oout.rdm1
           /\ oout.state_rdm12[1] = oout.state_rdm1
           /\ \A k \in 1..2, p \in Idx(SmallNorb), q \in Idx(SmallNorb) :
                d1[k][p][q] = Cx(rr1[k][p][q] + ii1[k][p][q], ri1[k][p][q] - ri1[k][q][p])

\* C18 witness: density matrices combined from engine results whose ab and ba
\* transition blocks differ, with imaginary parts that are not zero
C18_Witness ==
    /\ opc = "returned" /\ oin.op = "rdm12"
    /\ oin.engine.ri[2][2] # oin.engine.ri[2][3]
    /\ \E t \in Idx4(SmallNorb) : CTGet(oout.rdm12[2][2], t).im # 0
    /\ \E p \in Idx(SmallNorb), q \in Idx(SmallNorb) : oout.rdm1[1][p][q].im # 0

\* C19: when kernel has returned with N+1 records, the state has been
\* assigned N+1 times; the last record (index N) was retrieved after N of
\* them, from the state the last call of compute_update was given, and ci now
\* holds the state one step beyond it.
C19_StateOneStepBeyond ==
    (Len(ret) > 0 /\ Len(d1as) = N + 1) =>
        /\ nadv = N + 1
        /\ N >= 0 =>
              /\ src[N + 1] = N
              /\ upd.kind = "pair"
              /\ RecordDm(N + 1) = compute_rdm12(upd.ci)
              /\ ci = ApplyUpdate(upd.ci, upd, args.dt)

\* C19 witness: a returned run of several records whose final state differs
\* from the state of its last record
C19_Witness ==
    /\ Len(ret) > 0 /\ N >= 1 /\ Len(d1as) = N + 1
    /\ compute_rdm12(ci) # RecordDm(N + 1)

RECURSIVE StdTrajectory(_)
\* the states kernel_std goes through from the initial state: the state
\* after 0, 1, ..., k time steps (a sequence of length k+1)
StdTrajectory(k) ==
    IF k = 0 THEN <<CIObject(fcivec, Norb, Nelec)>>
    ELSE LET T == StdTrajectory(k - 1)
             c == T[k]
         IN Append(T, ApplyUpdate(c, compute_update(c, eris, args.dt, args.RK), args.dt))

\* C20: in both modes the state after every iteration k is the state
\* kernel_std reaches after k steps from the same bundle, initial state, dt
\* and order, and the density matrices retrieved at iteration k are those of
\* that state; so std mode and plot mode go through the same states and
\* retrieve the same density matrices.  (pc = "for" is the point between two
\* iterations.)
C20_SameTrajectory ==
    (pc = "for" /\ InModes(args.mode)) =>
        \E T \in {StdTrajectory(nadv)} :
            /\ ci = T[nadv + 1]
            /\ \A j \in 1..Len(d1as) : RecordDm(j) = compute_rdm12(T[j])

\* C20 witness: a plot run that has made two steps into a state with an
\* imaginary part
C20_Witness ==
    /\ args.mode = "plot" /\ pc = "for" /\ nadv = 2
    /\ \E p \in Idx(Norb) : ci.i[p] # 0

\* C21: compute_update leaves ci.r and ci.i as they were on entry, for order
\* 1 and order 4: the CIObject the call leaves is the one it was given (so
\* every stage is displaced from the same base state), and ci.r, ci.i change
\* only by the driver's assignment of the normalised stepped state after a
\* call that returned a pair.
C21_UpdateLeavesState ==
    /\ [][(pc = "step" /\ args.RK \in {1, 4}) => upd'.ci = ci]_vars
    /\ [][ci' # ci =>
            /\ pc = "step" /\ upd'.kind = "pair" /\ nadv' = nadv + 1
            /\ ci' = (IF args.mode = "std" THEN ApplyUpdate(ci, upd', args.dt)
                                           ELSE ApplyUpdatePlot(ci, upd', args.dt))]_vars

\* C21 witness: an order-4 call on a state with an imaginary part, whose
\* stages were displaced (the update is not zero), after which the driver
\* changed the state
C21_Witness ==
    /\ upd.kind = "pair" /\ args.RK = 4 /\ nadv = 2
    /\ \E p \in Idx(Norb) : upd.ci.i[p] # 0
    /\ \E p \in Idx(Norb) : upd.dr[p] # 0
    /\ ci # upd.ci

====
